---- MODULE Spec2Model ----
(***************************************************************************)
(* Model of OpenSMOG/OpenSMOG.py: the SBM class, its configuration steps   *)
(* (setup_openmm, saveFolder, loadGro, loadTop, loadXml, loadSystem,       *)
(* createSimulation, createReporters, run) and the output-file backup      *)
(* routine _checkFile.  The engine's objects (system, forces, reporters)   *)
(* are modelled by the data the code hands to them.                        *)
(***************************************************************************)
EXTENDS Integers, Sequences, FiniteSets, TLC

VARIABLES self, disk, exc, msg, errArg, op, args, loaderCalls

vars == <<self, disk, exc, msg, errArg, op, args, loaderCalls>>

(***************************************************************************)
(* Strings that the code lower-cases or tests with endswith are sequences  *)
(* of one-character strings.                                               *)
(***************************************************************************)
UpperChars == <<"A","B","C","D","E","F","G","H","I","J","K","L","M",
                "N","O","P","Q","R","S","T","U","V","W","X","Y","Z">>

LowerChars == <<"a","b","c","d","e","f","g","h","i","j","k","l","m",
                "n","o","p","q","r","s","t","u","v","w","x","y","z">>

\* str.lower() on one character
LowerChar(c) ==
    IF \E k \in 1..26 : UpperChars[k] = c
    THEN LowerChars[CHOOSE k \in 1..26 : UpperChars[k] = c]
    ELSE c

\* str.lower()
Lower(s) == [k \in 1..Len(s) |-> LowerChar(s[k])]

\* str.endswith(ext)
EndsWith(s, ext) ==
    /\ Len(s) >= Len(ext)
    /\ SubSeq(s, Len(s) - Len(ext) + 1, Len(s)) = ext

ExtGro == <<".","g","r","o">>
ExtTop == <<".","t","o","p">>
ExtXml == <<".","x","m","l">>

(***************************************************************************)
(* A Python dict is a sequence of <<key, value>> pairs with distinct keys, *)
(* in insertion order (the order "for k in d" visits them).                *)
(***************************************************************************)
DictHas(d, k) == \E n \in 1..Len(d) : d[n][1] = k

DictGet(d, k) == d[CHOOSE n \in 1..Len(d) : d[n][1] = k][2]

\* d[k] = v
DictSet(d, k, v) ==
    IF DictHas(d, k)
    THEN [n \in 1..Len(d) |-> IF d[n][1] = k THEN <<k, v>> ELSE d[n]]
    ELSE Append(d, <<k, v>>)

DictKeys(d) == [n \in 1..Len(d) |-> d[n][1]]

(***************************************************************************)
(* Text to number: int(text) and float(text) on the attribute texts the    *)
(* modelled XML files use.                                                 *)
(***************************************************************************)
NumberTexts == <<"1", "2", "3", "4", "5">>

IntOf(t) == CHOOSE n \in 1..Len(NumberTexts) : NumberTexts[n] = t

FloatOf(t) == IntOf(t)

\* numpy cells: a float is <<v>>, nan is <<>>
NaN == <<>>

Cell(v) == <<v>>

\* the IEEE comparison numpy applies in "tables[par] == np.nan"
FloatEq(x, y) == IF x = NaN \/ y = NaN THEN FALSE ELSE x = y

(***************************************************************************)
(* The program state.  self is the SBM object: one field per attribute;    *)
(* self.attrs is the set of attributes that have been assigned so far      *)
(* among those __init__ does not create (reading another one raises        *)
(* AttributeError).  disk is the set of <<path, content>> files.  exc, msg *)
(* and errArg are the exception the last call raised ("none" if it         *)
(* returned), its message and the file name the message quotes; op and     *)
(* args are the last call and its arguments, loaderCalls the loaders       *)
(* invoked in it, with the file name each was given.  A handler is an      *)
(* operator from a machine record                                          *)
(* [self, disk, exc, msg, errArg, loaderCalls] to the one it leaves.       *)
(***************************************************************************)
Machine == [self |-> self, disk |-> disk, exc |-> "none", msg |-> "",
            errArg |-> <<>>, loaderCalls |-> <<>>]

Raise(m, type, message) == [m EXCEPT !.exc = type, !.msg = message]

\* self.<a> = v
SetAttr(m, a, v) ==
    [m EXCEPT !.self = [[@ EXCEPT ![a] = v] EXCEPT !.attrs = @ \cup {a}]]

Has(m, a) == a \in m.self.attrs

\* the rest of a handler runs only if nothing was raised so far
Then(m, F(_)) == IF m.exc # "none" THEN m ELSE F(m)

NoFile == [name |-> <<>>, readable |-> FALSE]

NoTop == [name |-> <<>>, readable |-> FALSE, nforces |-> 0, molecules |-> <<>>]

NoSystem == [method |-> "", forces |-> <<>>, nparticles |-> 0]

NoData == [hasConstants |-> FALSE, constants |-> <<>>, contacts |-> <<>>,
           hasNonbond |-> FALSE, nonbond |-> <<>>]

NoIntegrator == [kind |-> "", value |-> <<>>]

NoSimulation == [reporters |-> <<>>, context |-> <<>>, positions |-> FALSE,
                 stepped |-> FALSE]

\* SBM.__init__
SBM(pbc) ==
    [attrs |-> {}, pbc |-> pbc, forceApplied |-> FALSE, loaded |-> FALSE,
     folder |-> ".", forceCount |-> 0,
     properties |-> <<>>, platform |-> "", integrator |-> NoIntegrator,
     integrator_type |-> <<>>, forceDict |-> <<>>, forcesDict |-> <<>>,
     inputNames |-> <<>>, Gro |-> NoFile, Top |-> NoTop, system |-> NoSystem,
     constants_present |-> FALSE, nonbond_present |-> FALSE,
     data |-> NoData, contacts |-> <<>>, nonbond |-> <<>>, atom_types |-> <<>>,
     simulation |-> NoSimulation, outputNames |-> <<>>]

forceNamesCA == <<"electrostastic", "Non-Contacts", "Bonds", "Angles", "Dihedrals">>

forceNamesAA == <<"electrostastic+default", "Non-Contacts+default", "Bonds",
                  "Angles", "Dihedrals", "Impropers">>

(***************************************************************************)
(* setup_openmm                                                            *)
(***************************************************************************)
S_mixed == <<"m","i","x","e","d">>
S_single == <<"s","i","n","g","l","e">>
S_double == <<"d","o","u","b","l","e">>
S_default == <<"d","e","f","a","u","l","t">>
S_langevin == <<"l","a","n","g","e","v","i","n">>
S_opencl == <<"o","p","e","n","c","l">>
S_reference == <<"r","e","f","e","r","e","n","c","e">>
S_cuda == <<"c","u","d","a">>
S_cpu == <<"c","p","u">>
S_hip == <<"h","i","p">>

\* the name handed to Platform.getPlatformByName
PlatformName(plat) ==
    CASE plat = S_opencl -> "OpenCL"
      [] plat = S_reference -> "Reference"
      [] plat = S_cuda -> "CUDA"
      [] plat = S_cpu -> "CPU"
      [] plat = S_hip -> "HIP"

\* lines 122-131: the integrator and the two force dictionaries
setup_integrator(m, integrator) ==
    LET m1 == IF Lower(integrator) = S_langevin
              THEN SetAttr(SetAttr(m, "integrator",
                                   [kind |-> "LangevinIntegrator", value |-> <<>>]),
                           "integrator_type", integrator)
              ELSE SetAttr(SetAttr(m, "integrator",
                                   [kind |-> "user", value |-> integrator]),
                           "integrator_type", <<"UserDefined">>)
    IN  SetAttr(SetAttr(m1, "forceDict", <<>>), "forcesDict", <<>>)

\* available: whether the engine has the platform (getPlatformByName
\* raises otherwise)
setup_openmm(m, platform, precision, GPUindex, integrator, available) ==
    LET prec == Lower(precision)
        p0 == DictSet(<<>>, "Precision", prec)
        properties == IF Lower(GPUindex) # S_default
                      THEN DictSet(p0, "DeviceIndex", GPUindex)
                      ELSE p0
        m1 == SetAttr(m, "properties", properties)
        plat == Lower(platform)
    IN  IF prec \notin {S_mixed, S_single, S_double}
        THEN Raise(m, "ValueError", "Precision must be mixed, single or double")
        ELSE IF plat \notin {S_opencl, S_reference, S_cuda, S_cpu, S_hip}
        THEN \* self.exit is not a method of SBM
             Raise(m1, "AttributeError", "exit")
        ELSE IF ~available
        THEN Raise(m1, "OpenMMException", "getPlatformByName")
        ELSE LET m2 == IF plat \in {S_reference, S_cpu}
                       THEN SetAttr(m1, "properties", <<>>)
                       ELSE m1
                 m3 == SetAttr(m2, "platform", PlatformName(plat))
             IN  setup_integrator(m3, integrator)

\* saveFolder
saveFolder(m, folder) ==
    LET d == IF folder = "." \/ \E e \in m.disk : e[1] = <<folder>>
             THEN m.disk
             ELSE m.disk \cup {<< <<folder>>, <<"dir">> >>}
    IN  [m EXCEPT !.disk = d, !.self.folder = folder]

(***************************************************************************)
(* Engine objects.  A force is the data the code gave it: label is the     *)
(* name it was built for, idx its position in the topology's system.       *)
(***************************************************************************)
Force(kind, idx, label, expr, params, bonds, globals, tables, particles,
      method, group) ==
    [kind |-> kind, idx |-> idx, label |-> label, expr |-> expr,
     params |-> params, bonds |-> bonds, globals |-> globals,
     tables |-> tables, particles |-> particles, method |-> method,
     group |-> group]

TopForce(k) == Force("top", k, "top", "", <<>>, <<>>, <<>>, <<>>, <<>>, "", 0)

RECURSIVE NumParticles(_)
NumParticles(molecules) ==
    IF molecules = <<>> THEN 0
    ELSE Len(Head(molecules).atoms) * Head(molecules).mult
         + NumParticles(Tail(molecules))

\* GromacsTopFile.createSystem: the topology's forces, in the engine's order
createSystem(top, nonbondedMethod) ==
    [method |-> nonbondedMethod,
     forces |-> [k \in 1..top.nforces |-> TopForce(k - 1)],
     nparticles |-> NumParticles(top.molecules)]

\* loadGro
loadGro(m, Grofile) ==
    LET m0 == [m EXCEPT !.loaderCalls = Append(@, <<"loadGro", Grofile.name>>)]
    IN  IF ~Grofile.readable
        THEN Raise(m0, "EngineError", "GromacsGroFile")
        ELSE SetAttr(m0, "Gro", Grofile)

\* lines 219-234: force groups and names of the topology's forces
RECURSIVE registerTopForces(_, _, _)
registerTopForces(m, force_id, nforces) ==
    LET named == (nforces = 7 /\ force_id <= 4) \/ (nforces = 8 /\ force_id <= 5)
        names == IF nforces = 7 THEN forceNamesCA ELSE forceNamesAA
        group == IF named THEN force_id ELSE 30
        f == [m.self.system.forces[force_id + 1] EXCEPT !.group = group]
        m1 == [m EXCEPT !.self.system.forces[force_id + 1] = f]
    IN  IF m.exc # "none" \/ force_id >= nforces \/ nforces \notin {7, 8}
        THEN m
        ELSE IF named /\ ~Has(m1, "forcesDict")
        THEN Raise(m1, "AttributeError", "forcesDict")
        ELSE IF named
        THEN registerTopForces(
                 [m1 EXCEPT !.self.forcesDict = DictSet(@, names[force_id + 1], f),
                            !.self.forceCount = @ + 1],
                 force_id + 1, nforces)
        ELSE registerTopForces(m1, force_id + 1, nforces)

\* loadTop
loadTop(m, Topfile) ==
    LET m0 == [m EXCEPT !.loaderCalls = Append(@, <<"loadTop", Topfile.name>>)]
        method == IF m.self.pbc = TRUE THEN "CutoffPeriodic" ELSE "CutoffNonPeriodic"
        m1 == SetAttr(m0, "Top", Topfile)
        m2 == SetAttr(m1, "system", createSystem(Topfile, method))
    IN  IF m.self.pbc = TRUE /\ ~Has(m, "Gro")
        THEN Raise(m0, "AttributeError", "Gro")
        ELSE IF ~Topfile.readable
        THEN Raise(m0, "EngineError", "GromacsTopFile")
        ELSE registerTopForces(m2, 0, Topfile.nforces)

\* faulty variant: the name is compared without lower-casing it
check_file_caseSensitive(m, filename, ext) ==
    IF ~EndsWith(filename, ext)
    THEN [Raise(m, "ValueError", "Wrong file extension") EXCEPT !.errArg = filename]
    ELSE m

\* _check_file
check_file(m, filename, ext) ==
    IF ~EndsWith(Lower(filename), ext)
    THEN [Raise(m, "ValueError", "Wrong file extension") EXCEPT !.errArg = filename]
    ELSE m

(***************************************************************************)
(* loadXml.  An XML file is                                                *)
(*   [name, valid, hasConstants, constants, hasContacts, contacts,         *)
(*    hasNonbond, nonbond]                                                 *)
(* valid: it validates against the bundled schema; constants: the          *)
(* <<name, value text>> of each constant element; contacts: one            *)
(* [name, expr, params, inter] per contacts_type, inter the attribute maps *)
(* of its interaction elements; nonbond: one [expr, params, nbparams] per  *)
(* nonbond_bytype, nbparams the attribute maps of its nonbond_param        *)
(* elements.                                                               *)
(***************************************************************************)
\* faulty variant: the result of the schema validation is ignored
validate_ignored(Xmlfile) == TRUE

validate(Xmlfile) == Xmlfile.valid

\* lines 404-408: the constants dict
RECURSIVE constantsDict(_, _)
constantsDict(d, consts) ==
    IF consts = <<>> THEN d
    ELSE constantsDict(DictSet(d, Head(consts)[1], FloatOf(Head(consts)[2])),
                       Tail(consts))

\* the xml_data import_xml2OpenSMOG returns
xml_data(Xmlfile) ==
    LET c == Xmlfile.contacts
        nb == Xmlfile.nonbond
    IN  [hasConstants |-> Xmlfile.hasConstants,
         constants |-> constantsDict(<<>>, Xmlfile.constants),
         contacts |-> << [n \in 1..Len(c) |-> c[n].expr],
                         [n \in 1..Len(c) |-> c[n].params],
                         [n \in 1..Len(c) |-> c[n].inter],
                         [n \in 1..Len(c) |-> c[n].name] >>,
         hasNonbond |-> Xmlfile.hasNonbond,
         nonbond |-> << [n \in 1..Len(nb) |-> n - 1],
                        [n \in 1..Len(nb) |-> nb[n].expr],
                        [n \in 1..Len(nb) |-> nb[n].params],
                        [n \in 1..Len(nb) |-> nb[n].nbparams] >>]

\* faulty variant: the check of self.pbc (lines 440-441) is left out
import_noPbcCheck(m, Xmlfile) ==
    LET m1 == IF Xmlfile.hasConstants
              THEN SetAttr(m, "constants_present", TRUE)
              ELSE m
    IN  IF ~Xmlfile.hasContacts
        THEN Raise(m1, "ValueError", "No contacts were found in the XML file")
        ELSE IF Xmlfile.hasNonbond
        THEN SetAttr(m1, "nonbond_present", TRUE)
        ELSE m1

\* import_xml2OpenSMOG: what it assigns on self and what it raises
import_xml2OpenSMOG(m, Xmlfile) ==
    LET m1 == IF Xmlfile.hasConstants
              THEN SetAttr(m, "constants_present", TRUE)
              ELSE m
    IN  IF ~Xmlfile.hasContacts
        THEN Raise(m1, "ValueError", "No contacts were found in the XML file")
        ELSE IF Xmlfile.hasNonbond /\ m.self.pbc = FALSE
        THEN Raise(m1, "ValueError", "Nonbonded forces found, but PBC is off")
        ELSE IF Xmlfile.hasNonbond
        THEN SetAttr(m1, "nonbond_present", TRUE)
        ELSE m1

\* _splitForces_contacts
RECURSIVE splitForces_contacts(_, _, _)
splitForces_contacts(cont_data, forces, n) ==
    IF n > Len(cont_data[4]) THEN forces
    ELSE splitForces_contacts(
             cont_data,
             DictSet(forces, cont_data[4][n],
                     <<cont_data[1][n], cont_data[2][n], cont_data[3][n]>>),
             n + 1)

\* _splitForces_nb
RECURSIVE splitForces_nb(_, _, _)
splitForces_nb(nb_data, forces, n) ==
    IF n > Len(nb_data[1]) THEN forces
    ELSE splitForces_nb(
             nb_data,
             DictSet(forces, nb_data[1][n],
                     <<nb_data[2][n], nb_data[3][n], nb_data[4][n]>>),
             n + 1)

\* lines 273-275 and 289-291: the global parameters a force gets, or the
\* exception the lookup raises
globalsCheck(m) ==
    IF ~Has(m, "constants_present")
    THEN Raise(m, "AttributeError", "constants_present")
    ELSE IF m.self.constants_present = TRUE /\ ~m.self.data.hasConstants
    THEN Raise(m, "KeyError", "constants")
    ELSE m

globalParameters(m) ==
    IF m.self.constants_present = TRUE THEN m.self.data.constants ELSE <<>>

\* lines 266-271: the bond of one interaction element
bondOf(iteraction, pars) ==
    << IntOf(iteraction["i"]) - 1, IntOf(iteraction["j"]) - 1,
       [k \in 1..Len(pars) |-> FloatOf(iteraction[pars[k]])] >>

\* _customSmogForce
customSmogForce(m, name, data) ==
    LET pars == data[2]
        bonds == [n \in 1..Len(data[3]) |-> bondOf(data[3][n], pars)]
        m1 == globalsCheck(m)
        contacts_ff == Force("CustomBondForce", 0, name, data[1], pars, bonds,
                             globalParameters(m), <<>>, <<>>, "",
                             m.self.forceCount)
    IN  IF m1.exc # "none" THEN m1
        ELSE IF ~Has(m, "forcesDict")
        THEN Raise(m, "AttributeError", "forcesDict")
        ELSE [m EXCEPT !.self.forcesDict = DictSet(@, name, contacts_ff),
                       !.self.forceCount = @ + 1]

\* self.system.addForce(force)
addForce(m, force) ==
    IF ~Has(m, "system")
    THEN Raise(m, "AttributeError", "system")
    ELSE [m EXCEPT !.self.system.forces = Append(@, force)]

(***************************************************************************)
(* _customSmogForce_nb.  Atom-type labels are ordered as in AtomTypeOrder  *)
(* (the order np.unique sorts them in).  The charges and exclusions the    *)
(* code copies from the topology's forces are not modelled.                *)
(***************************************************************************)
AtomTypeOrder == <<"A", "B", "C">>

\* np.unique(np.array(labels))
npUnique(labels) ==
    SelectSeq(AtomTypeOrder, LAMBDA t : \E n \in 1..Len(labels) : labels[n] = t)

\* np.where(arr == x)[0]: the (0-based) positions of x in arr
npWhere(arr, x) == {n - 1 : n \in {k \in 1..Len(arr) : arr[k] = x}}

Min(S) == CHOOSE x \in S : \A y \in S : x <= y

\* lines 300-304: the type index
typeIndex(nbparams) == npUnique([n \in 1..Len(nbparams) |-> nbparams[n]["type1"]])

\* lines 307-309: one natom_types x natom_types table of nan per parameter
RECURSIVE newTables(_, _, _)
newTables(tables, pars, natom_types) ==
    IF pars = <<>> THEN tables
    ELSE newTables(
             DictSet(tables, Head(pars),
                     [a \in 0..(natom_types - 1) |->
                         [b \in 0..(natom_types - 1) |-> NaN]]),
             Tail(pars), natom_types)

\* lines 316-318: one nonbond_param written to both cells of every table
setCells(tables, type1, type2, nonbond_params) ==
    [n \in 1..Len(tables) |->
        LET par == tables[n][1]
            v == Cell(FloatOf(nonbond_params[par]))
            t1 == [tables[n][2] EXCEPT ![type1][type2] = v]
        IN  <<par, [t1 EXCEPT ![type2][type1] = v]>>]

\* lines 312-318: [m, tables] after the nonbond_param entries from n on
RECURSIVE fillTables(_, _, _, _)
fillTables(m, tables, nbparams, n) ==
    IF n > Len(nbparams) THEN [m |-> m, tables |-> tables]
    ELSE LET w1 == npWhere(m.self.atom_types, nbparams[n]["type1"])
             w2 == npWhere(m.self.atom_types, nbparams[n]["type2"])
         IN  IF w1 = {} \/ w2 = {}
             THEN [m |-> Raise(m, "IndexError", "index 0 is out of bounds"),
                   tables |-> tables]
             ELSE fillTables(m, setCells(tables, Min(w1), Min(w2), nbparams[n]),
                             nbparams, n + 1)

\* np.sum(table == np.nan)
nanCount(table) ==
    Cardinality({ab \in (DOMAIN table) \X (DOMAIN table) :
                    FloatEq(table[ab[1]][ab[2]], NaN)})

\* list(np.ravel(table)): the cells row by row
ravel(table) ==
    LET n == Cardinality(DOMAIN table)
    IN  [k \in 1..(n * n) |-> table[(k - 1) \div n][(k - 1) % n]]

\* lines 322-327: the tabulated functions, or the ValueError of the check
tabulated(m, tables, pars) ==
    IF \E n \in 1..Len(pars) : nanCount(DictGet(tables, pars[n])) # 0
    THEN [m |-> Raise(m, "ValueError",
                      "Nonbonded force parameter is not defined for all atom interactions"),
          funs |-> <<>>]
    ELSE [m |-> m,
          funs |-> [n \in 1..Len(pars) |-> <<pars[n], ravel(DictGet(tables, pars[n]))>>]]

\* lines 344-356: the atom type of every particle
RECURSIVE repeat(_, _)
repeat(x, mult) == IF mult <= 0 THEN <<>> ELSE <<x>> \o repeat(x, mult - 1)

RECURSIVE atomsTimes(_, _)
atomsTimes(atoms, mult) ==
    IF atoms = <<>> THEN <<>>
    ELSE repeat(Head(atoms), mult) \o atomsTimes(Tail(atoms), mult)

RECURSIVE particleTypes(_)
particleTypes(molecules) ==
    IF molecules = <<>> THEN <<>>
    ELSE atomsTimes(Head(molecules).atoms, Head(molecules).mult)
         \o particleTypes(Tail(molecules))

r_cutoff == 3

NbKeys == <<"Nonbonded0", "Nonbonded1", "Nonbonded2", "Nonbonded3">>

\* 'Nonbonded'+str(name)
NonbondedKey(name) == NbKeys[name + 1]

\* _customSmogForce_nb
customSmogForce_nb(m, name, data) ==
    LET m1 == globalsCheck(m)
        globals == Append(globalParameters(m), <<"r_c", r_cutoff>>)
        m2 == SetAttr(m, "atom_types", typeIndex(data[3]))
        natom_types == Len(m2.self.atom_types)
        filled == fillTables(m2, newTables(<<>>, data[2], natom_types), data[3], 1)
        tab == tabulated(filled.m, filled.tables, data[2])
        atom_types == particleTypes(m.self.Top.molecules)
        found == \A i \in 1..m.self.system.nparticles :
                     npWhere(m2.self.atom_types, atom_types[i]) # {}
        particles == [i \in 1..m.self.system.nparticles |->
                         Min(npWhere(m2.self.atom_types, atom_types[i]))]
        nonbond_ff == Force("CustomNonbondedForce", 0, NonbondedKey(name), data[1],
                            <<"q", "type">>, <<>>, globals, tab.funs, particles,
                            "CutoffPeriodic", m.self.forceCount)
    IN  IF m1.exc # "none" THEN m1
        ELSE IF ~Has(m, "system") THEN Raise(m, "AttributeError", "system")
        ELSE IF filled.m.exc # "none" THEN filled.m
        ELSE IF tab.m.exc # "none" THEN tab.m
        ELSE IF ~found THEN Raise(m2, "IndexError", "index 0 is out of bounds")
        ELSE IF ~Has(m, "forcesDict") THEN Raise(m2, "AttributeError", "forcesDict")
        ELSE [m2 EXCEPT !.self.forcesDict = DictSet(@, NonbondedKey(name), nonbond_ff),
                        !.self.forceCount = @ + 1]

\* lines 474-477: one contact force per entry of self.contacts, from entry k on
RECURSIVE contactsLoop(_, _)
contactsLoop(m, k) ==
    IF m.exc # "none" \/ k > Len(m.self.contacts) THEN m
    ELSE LET force == m.self.contacts[k][1]
             m1 == customSmogForce(m, force, m.self.contacts[k][2])
         IN  contactsLoop(
                 Then(m1, LAMBDA x : addForce(x, DictGet(x.self.forcesDict, force))),
                 k + 1)

\* lines 481-484: one nonbonded force per entry of self.nonbond, from entry k on
RECURSIVE nonbondLoop(_, _)
nonbondLoop(m, k) ==
    IF m.exc # "none" \/ k > Len(m.self.nonbond) THEN m
    ELSE LET force == m.self.nonbond[k][1]
             m1 == customSmogForce_nb(m, force, m.self.nonbond[k][2])
         IN  nonbondLoop(
                 Then(m1, LAMBDA x : addForce(x, DictGet(x.self.forcesDict,
                                                         NonbondedKey(force)))),
                 k + 1)

\* self.system.removeForce(0)
removeForce0(m) == [m EXCEPT !.self.system.forces = Tail(@)]

\* lines 479-489 of loadXml
loadXml_nonbond(m) ==
    IF ~Has(m, "nonbond_present")
    THEN Raise(m, "AttributeError", "nonbond_present")
    ELSE IF m.self.nonbond_present = TRUE /\ ~m.self.data.hasNonbond
    THEN Raise(m, "KeyError", "nonbond")
    ELSE LET m1 == SetAttr(m, "nonbond",
                           splitForces_nb(m.self.data.nonbond, <<>>, 1))
             m2 == nonbondLoop(m1, 1)
             m3 == Then(m2, LAMBDA x : removeForce0(removeForce0(x)))
         IN  IF m.self.nonbond_present = TRUE
             THEN Then(m3, LAMBDA x : [x EXCEPT !.self.forceApplied = TRUE])
             ELSE [m EXCEPT !.self.forceApplied = TRUE]

\* lines 466-477 of loadXml, once the file has validated
loadXml_apply(m, Xmlfile) ==
    LET m1 == import_xml2OpenSMOG(m, Xmlfile)
        m2 == SetAttr(m1, "data", xml_data(Xmlfile))
        m3 == SetAttr(m2, "contacts",
                      splitForces_contacts(m2.self.data.contacts, <<>>, 1))
    IN  IF m1.exc # "none" THEN m1
        ELSE Then(contactsLoop(m3, 1), loadXml_nonbond)

\* faulty variant: the forces are applied again although forceApplied is set
loadXml_reapplied(m, Xmlfile) ==
    LET m0 == [m EXCEPT !.loaderCalls = Append(@, <<"loadXml", Xmlfile.name>>)]
    IN  IF ~validate(Xmlfile)
        THEN Raise(m0, "ValueError", "The xml file is not in the correct format")
        ELSE loadXml_apply(m0, Xmlfile)

\* loadXml
loadXml(m, Xmlfile) ==
    LET m0 == [m EXCEPT !.loaderCalls = Append(@, <<"loadXml", Xmlfile.name>>)]
    IN  IF ~m.self.forceApplied
        THEN IF ~validate(Xmlfile)
             THEN Raise(m0, "ValueError", "The xml file is not in the correct format")
             ELSE loadXml_apply(m0, Xmlfile)
        ELSE m0

\* loadSystem
loadSystem(m, Grofile, Topfile, Xmlfile) ==
    LET m0 == SetAttr(m, "inputNames", <<Grofile.name, Topfile.name, Xmlfile.name>>)
        m1 == Then(check_file(m0, Grofile.name, ExtGro), LAMBDA x : loadGro(x, Grofile))
        m2 == Then(Then(m1, LAMBDA x : check_file(x, Topfile.name, ExtTop)),
                   LAMBDA x : loadTop(x, Topfile))
    IN  Then(Then(m2, LAMBDA x : check_file(x, Xmlfile.name, ExtXml)),
             LAMBDA x : loadXml(x, Xmlfile))

\* createSimulation
createSimulation(m) ==
    LET missing == {a \in {"Top", "system", "integrator", "platform", "properties"} :
                       ~Has(m, a)}
        m1 == SetAttr(m, "simulation",
                      [reporters |-> <<>>, context |-> m.self.system.forces,
                       positions |-> FALSE, stepped |-> FALSE])
    IN  IF m.self.loaded THEN m
        ELSE IF missing # {}
        THEN Raise(m, "AttributeError", "createSimulation")
        ELSE IF ~Has(m, "Gro")
        THEN Raise(m1, "AttributeError", "Gro")
        ELSE [m1 EXCEPT !.self.simulation.positions = TRUE, !.self.loaded = TRUE]

(***************************************************************************)
(* Output files.  A path is a sequence of strings: <<folder, file name>>,  *)
(* and filename + "_" + str(i) appends the text of i.                      *)
(***************************************************************************)
MaxBackups == 10

\* "_" + str(i)
BackupSuffix == <<"_1", "_2", "_3", "_4", "_5", "_6", "_7", "_8", "_9", "_10">>

\* os.path.isfile
isfile(d, path) == \E e \in d : e[1] = path /\ e[2] # <<"dir">>

\* os.rename(src, dst): dst is replaced if it exists
rename(d, src, dst) ==
    {e \in d : e[1] # src /\ e[1] # dst}
        \cup {<<dst, e[2]>> : e \in {x \in d : x[1] = src}}

\* open(path, 'w'): the file is created, or emptied
openw(d, path) == {e \in d : e[1] # path} \cup {<<path, <<"new">> >>}

\* lines 512-519: the while loop of _checkFile
RECURSIVE checkFileLoop(_, _, _)
checkFileLoop(d, filename, i) ==
    IF i > MaxBackups THEN d
    ELSE LET newname == Append(filename, BackupSuffix[i])
         IN  IF ~isfile(d, newname)
             THEN rename(d, filename, newname)
             ELSE checkFileLoop(d, filename, i + 1)

\* _checkFile
checkFile(d, filename) ==
    IF isfile(d, filename) THEN checkFileLoop(d, filename, 1) ELSE d

\* os.path.join(self.folder, name)
join(folder, name) == <<folder, name>>

\* one "if <flag>:" block of createReporters
addReporter(m, flag, name, reporter) ==
    LET file == join(m.self.folder, name)
        m1 == [m EXCEPT !.disk = checkFile(@, file),
                        !.self.outputNames = Append(@, file)]
    IN  IF ~flag \/ m.exc # "none" THEN m
        ELSE IF ~Has(m, "simulation")
        THEN Raise(m1, "AttributeError", "simulation")
        ELSE [m1 EXCEPT !.disk = openw(@, file),
                        !.self.simulation.reporters = Append(@, <<reporter, file>>)]

\* createReporters
createReporters(m, trajectory, energies, energy_components) ==
    LET m0 == SetAttr(m, "outputNames", <<>>)
        m1 == addReporter(m0, trajectory, "OpenSMOG_trajectory.dcd", "DCDReporter")
        m2 == addReporter(m1, energies, "OpenSMOG_energies.txt", "StateDataReporter")
    IN  addReporter(m2, energy_components, "OpenSMOG_forces.txt", "forcesReporter")

\* _createLogfile
createLogfile(m) ==
    LET logFilename == join(m.self.folder, "OpenSMOG.log")
        m1 == [m EXCEPT !.disk = checkFile(@, logFilename)]
        m2 == [m1 EXCEPT !.self.outputNames = Append(@, logFilename),
                         !.disk = openw(@, logFilename)]
    IN  IF ~Has(m, "outputNames")
        THEN Raise(m1, "AttributeError", "outputNames")
        ELSE IF ~Has(m, "platform")
        THEN Raise(m2, "AttributeError", "platform")
        ELSE IF ~Has(m, "inputNames")
        THEN Raise(m2, "AttributeError", "inputNames")
        ELSE m2

\* run
run(m, report) ==
    LET m1 == IF report
              THEN [m EXCEPT !.self.simulation.reporters =
                                 Append(@, <<"StateDataReporter", <<"stdout">> >>)]
              ELSE m
        m2 == createLogfile(m1)
    IN  IF report /\ ~Has(m, "simulation")
        THEN Raise(m, "AttributeError", "simulation")
        ELSE IF m2.exc # "none" THEN m2
        ELSE IF ~Has(m2, "simulation")
        THEN Raise(m2, "AttributeError", "simulation")
        ELSE [m2 EXCEPT !.self.simulation.stepped = TRUE]

(***************************************************************************)
(* Inputs.                                                                 *)
(***************************************************************************)
MaxContactTypes == 2
MaxNonbondTypes == 1
MaxAddedForces == 2
MaxForceCount == 1
MaxReporters == 2
MaxOutputNames == 2

N_gro == <<"a", ".", "g", "r", "o">>
N_top == <<"a", ".", "t", "o", "p">>
N_xml == <<"a", ".", "x", "m", "l">>

GroFiles == {[name |-> N_gro, readable |-> TRUE]}

\* a C-alpha topology (7 forces) and an all-atom one (8 forces)
TopCA == [name |-> N_top, readable |-> TRUE, nforces |-> 7,
          molecules |-> << [atoms |-> <<"A", "B">>, mult |-> 1] >>]

TopAA == [name |-> N_top, readable |-> TRUE, nforces |-> 8,
          molecules |-> << [atoms |-> <<"B">>, mult |-> 2],
                           [atoms |-> <<"A">>, mult |-> 1] >>]

TopFiles == {TopCA, TopAA}

CT1 == [name |-> "c1", expr |-> "e1", params |-> <<"eps", "r0">>,
        inter |-> << [i |-> "1", j |-> "2", eps |-> "3", r0 |-> "4"] >>]

ContactTypes ==
    { CT1,
      [name |-> "c2", expr |-> "e2", params |-> <<"r0", "eps">>,
       inter |-> << [i |-> "2", j |-> "3", eps |-> "5", r0 |-> "1"],
                    [i |-> "1", j |-> "3", eps |-> "2", r0 |-> "2"] >>],
      [name |-> "c1", expr |-> "e2", params |-> <<"r0">>,
       inter |-> << [i |-> "1", j |-> "3", eps |-> "1", r0 |-> "5"] >>] }

NB1 == [expr |-> "n1", params |-> <<"c12">>,
        nbparams |-> << [type1 |-> "A", type2 |-> "A", c12 |-> "1"],
                        [type1 |-> "B", type2 |-> "A", c12 |-> "2"],
                        [type1 |-> "B", type2 |-> "B", c12 |-> "3"] >>]

\* every pair of types given; the pair B-B missing; a type only named as type2
NonbondTypes ==
    { NB1,
      [expr |-> "n2", params |-> <<"c12">>,
       nbparams |-> << [type1 |-> "A", type2 |-> "A", c12 |-> "1"],
                       [type1 |-> "B", type2 |-> "A", c12 |-> "2"] >>],
      [expr |-> "n3", params |-> <<"c12">>,
       nbparams |-> << [type1 |-> "A", type2 |-> "A", c12 |-> "1"],
                       [type1 |-> "A", type2 |-> "B", c12 |-> "2"] >>] }

\* the sequences of 1 to n different elements of S
SeqsUpTo(S, n) ==
    {q \in UNION {[1..k -> S] : k \in 1..n} :
        \A a, b \in 1..Len(q) : q[a] = q[b] => a = b}

Xml(valid, hasConstants, contacts, nonbond) ==
    [name |-> N_xml, valid |-> valid,
     hasConstants |-> hasConstants,
     constants |-> IF hasConstants THEN << <<"k", "2">> >> ELSE <<>>,
     hasContacts |-> contacts # <<>>, contacts |-> contacts,
     hasNonbond |-> nonbond # <<>>, nonbond |-> nonbond]

\* a file that does not validate; files with every sequence of contacts
\* types; files with and without constants and with every nonbond section
XmlFiles ==
    {Xml(FALSE, TRUE, <<CT1>>, <<NB1>>)}
    \cup {Xml(TRUE, TRUE, c, <<NB1>>) : c \in SeqsUpTo(ContactTypes, MaxContactTypes)}
    \cup {Xml(TRUE, k, <<CT1>>, nb) :
             k \in BOOLEAN,
             nb \in {<<>>} \cup SeqsUpTo(NonbondTypes, MaxNonbondTypes)}

\* what the recorded arguments keep of an XML file
XmlArg(x) == [valid |-> x.valid, hasConstants |-> x.hasConstants,
              hasContacts |-> x.hasContacts, hasNonbond |-> x.hasNonbond]

(***************************************************************************)
(* Actions: one per public method of SBM.                                  *)
(***************************************************************************)
\* the call leaves the machine r it computed; op and args record the call
Return(m, name, a) ==
    \E r \in {m} :
        /\ self' = r.self
        /\ disk' = r.disk
        /\ exc' = r.exc
        /\ msg' = r.msg
        /\ errArg' = r.errArg
        /\ loaderCalls' = r.loaderCalls
        /\ op' = name
        /\ args' = a

InitObject ==
    /\ self \in {SBM(pbc) : pbc \in BOOLEAN}
    /\ exc = "none"
    /\ msg = ""
    /\ errArg = <<>>
    /\ op = "__init__"
    /\ args = <<>>
    /\ loaderCalls = <<>>

Init == InitObject /\ disk = {}

\* forces added to the system since loadTop created it
AddedForces == Len(self.system.forces) - self.Top.nforces

CanAddForces ==
    IF "system" \in self.attrs
    THEN AddedForces < MaxAddedForces
    ELSE self.forceCount < MaxForceCount

CanLoadTop == self.forceCount < MaxForceCount

Setup ==
    Return(setup_openmm(Machine, S_opencl, S_single, S_default, S_langevin, TRUE),
           "setup_openmm", [platform |-> S_opencl, precision |-> S_single])

LoadGro ==
    \E g \in GroFiles : Return(loadGro(Machine, g), "loadGro", <<>>)

LoadTop ==
    /\ CanLoadTop
    /\ \E t \in TopFiles : Return(loadTop(Machine, t), "loadTop", <<>>)

LoadXml ==
    /\ CanAddForces
    /\ \E x \in XmlFiles : Return(loadXml(Machine, x), "loadXml", XmlArg(x))

Next ==
    \/ Setup
    \/ LoadGro
    \/ LoadTop
    \/ LoadXml

Spec == Init /\ [][Next]_vars

(***************************************************************************)
(* setup_openmm on its own, over platform, precision, device and           *)
(* integrator names in several spellings.                                  *)
(***************************************************************************)
Platforms ==
    {S_opencl, <<"O","p","e","n","C","L">>, <<"C","U","D","A">>, <<"H","I","P">>,
     S_cpu, <<"R","e","f","e","r","e","n","c","e">>, <<"m","e","t","a","l">>}

Precisions ==
    {S_single, <<"S","i","n","g","l","e">>, S_mixed, S_double, <<"h","a","l","f">>}

SetupAny ==
    \E platform \in Platforms, precision \in Precisions,
       GPUindex \in {S_default, <<"0">>},
       integrator \in {S_langevin, <<"V","e","r","l","e","t">>},
       available \in BOOLEAN :
        Return(setup_openmm(Machine, platform, precision, GPUindex, integrator,
                            available),
               "setup_openmm", [platform |-> platform, precision |-> precision])

NextSetup == SetupAny

SpecSetup == Init /\ [][NextSetup]_vars

(***************************************************************************)
(* loadSystem over file names with right and wrong extensions, in lower    *)
(* and upper case, and over coordinate files the engine cannot read.       *)
(***************************************************************************)
FileNames ==
    {N_gro, <<"A", ".", "G", "R", "O">>, <<"a", ".", "T", "o", "p">>,
     <<"a", ".", "X", "M", "L">>, <<"a", "g", "r", "o">>}

LoadSystem ==
    /\ CanLoadTop
    /\ CanAddForces
    /\ \E gn \in FileNames, tn \in FileNames, xn \in FileNames, readable \in BOOLEAN :
           Return(loadSystem(Machine,
                             [name |-> gn, readable |-> readable],
                             [TopCA EXCEPT !.name = tn],
                             [Xml(TRUE, TRUE, <<CT1>>, <<NB1>>) EXCEPT !.name = xn]),
                  "loadSystem", <<>>)

NextNames ==
    \/ Setup
    \/ LoadSystem

SpecNames == Init /\ [][NextNames]_vars

(***************************************************************************)
(* The output files: the disk starts with any set of files among the run   *)
(* log and its ten backup names.                                           *)
(***************************************************************************)
LogFile == join(".", "OpenSMOG.log")

LogFiles == {LogFile} \cup {Append(LogFile, BackupSuffix[i]) : i \in 1..MaxBackups}

\* a file that was on disk before the program started
OldFile(path) == <<path, <<"old">> \o path>>

InitFiles ==
    /\ InitObject
    /\ self.pbc
    /\ disk \in {{OldFile(path) : path \in S} : S \in SUBSET LogFiles}

\* files written by this program so far
CanWrite == Cardinality({e \in disk : e[2] = <<"new">>}) < MaxReporters

CheckFile ==
    \E filename \in {LogFile, join(".", "OpenSMOG_energies.txt")} :
        Return([Machine EXCEPT !.disk = checkFile(@, filename)],
               "_checkFile", [filename |-> filename])

CreateReporters ==
    /\ CanWrite
    /\ \E trajectory, energies, energy_components \in BOOLEAN :
           Return(createReporters(Machine, trajectory, energies, energy_components),
                  "createReporters", <<trajectory, energies, energy_components>>)

Run ==
    /\ CanWrite
    /\ Len(self.outputNames) < MaxOutputNames
    /\ \E report \in BOOLEAN : Return(run(Machine, report), "run", <<report>>)

NextFiles ==
    \/ CheckFile
    \/ CreateReporters
    \/ Run

SpecFiles == InitFiles /\ [][NextFiles]_vars

(***************************************************************************)
(* Properties of loadXml, checked under Spec.                              *)
(***************************************************************************)
\* loadXml was called with setup_openmm and loadTop done before it
Prepared == {"forcesDict", "system"} \subseteq self.attrs

BondForces(forces) == SelectSeq(forces, LAMBDA f : f.kind = "CustomBondForce")

NonbondedForces(forces) == SelectSeq(forces, LAMBDA f : f.kind = "CustomNonbondedForce")

\* the step is a loadXml call that leaves forces, names and count as they were
ForcesUntouched ==
    /\ self'.system = self.system
    /\ self'.forcesDict = self.forcesDict
    /\ self'.forceCount = self.forceCount
    /\ self'.forceApplied = self.forceApplied

\* C1: a valid XML file with contacts and no constants section is accepted:
\* loadXml returns normally, the contact forces it added have no global
\* parameters, and forceApplied is True.
C1_NoConstantsAccepted ==
    (op = "loadXml" /\ Prepared /\ args.valid /\ args.hasContacts
        /\ ~args.hasConstants /\ args.hasNonbond /\ self.pbc)
    => /\ exc = "none"
       /\ self.forceApplied
       /\ BondForces(self.system.forces) # <<>>
       /\ \A n \in 1..Len(BondForces(self.system.forces)) :
              BondForces(self.system.forces)[n].globals = <<>>

\* C2: a valid XML file with constants and contacts and no nonbond section is
\* accepted: loadXml returns normally, the system holds one force per
\* contacts type and still holds the topology's two nonbonded forces, and
\* forceApplied is True.
C2_NoNonbondAccepted ==
    (op = "loadXml" /\ Prepared /\ args.valid /\ args.hasContacts
        /\ args.hasConstants /\ ~args.hasNonbond)
    => /\ exc = "none"
       /\ self.forceApplied
       /\ Len(BondForces(self.system.forces)) = Len(self.data.contacts[4])
       /\ self.system.forces[1].kind = "top" /\ self.system.forces[1].idx = 0
       /\ self.system.forces[2].kind = "top" /\ self.system.forces[2].idx = 1

\* C4: a loadXml call on a file that does not validate, made while
\* forceApplied is False, raises ValueError and leaves the system's forces,
\* forcesDict, forceCount and forceApplied as they were.
C4_InvalidXmlRejected ==
    [][(op' = "loadXml" /\ ~args'.valid /\ ~self.forceApplied)
        => /\ exc' = "ValueError"
           /\ msg' = "The xml file is not in the correct format"
           /\ ForcesUntouched
           /\ ~self'.forceApplied]_vars

C4_Witness ==
    /\ op = "loadXml" /\ ~args.valid /\ exc = "ValueError"
    /\ Prepared /\ ~self.forceApplied
    /\ Len(self.system.forces) = self.Top.nforces
    /\ self.forcesDict # <<>>

\* C6: with periodic boundary conditions off, a loadXml call on a valid file
\* that has a nonbond section raises ValueError("Nonbonded forces found, but
\* PBC is off") and leaves the system's forces, forcesDict, forceCount and
\* forceApplied (False) as they were; and every system that holds a custom
\* nonbonded force was created with the periodic nonbonded method.
C6_NonbondNeedsPbc ==
    [][/\ (op' = "loadXml" /\ args'.valid /\ args'.hasContacts /\ args'.hasNonbond
             /\ ~self.forceApplied /\ self.pbc = FALSE)
          => /\ exc' = "ValueError"
             /\ msg' = "Nonbonded forces found, but PBC is off"
             /\ ForcesUntouched
             /\ ~self'.forceApplied
       /\ NonbondedForces(self'.system.forces) # <<>>
          => self'.system.method = "CutoffPeriodic"]_vars

C6_Witness ==
    /\ op = "loadXml" /\ args.valid /\ args.hasNonbond /\ self.pbc = FALSE
    /\ exc = "ValueError" /\ msg = "Nonbonded forces found, but PBC is off"
    /\ Prepared
    /\ self.system.method = "CutoffNonPeriodic"
    /\ Len(self.system.forces) = self.Top.nforces

\* C7: once forceApplied is True, a loadXml call with any file, valid or
\* not, returns normally and leaves the whole object (the system's forces,
\* forcesDict, forceCount and data among it) unchanged.
C7_AppliedOnce ==
    [][(op' = "loadXml" /\ self.forceApplied)
        => /\ exc' = "none"
           /\ self' = self]_vars

C7_Witness ==
    /\ op = "loadXml" /\ ~args.valid /\ exc = "none"
    /\ self.forceApplied
    /\ BondForces(self.system.forces) # <<>>

\* the tabulated functions of the custom nonbonded forces hold no nan
NoNaNTabulated(forces) ==
    \A n \in 1..Len(forces) :
        \A t \in 1..Len(forces[n].tables) :
            \A k \in 1..Len(forces[n].tables[t][2]) :
                forces[n].tables[t][2][k] # NaN

\* C8: no custom nonbonded force gets a tabulated function with an undefined
\* cell: when a pair of atom types has no nonbond_param entry the call raises
\* ValueError, so every force in the system has fully defined tables.
C8_UndefinedPairRejected ==
    NoNaNTabulated(NonbondedForces(self.system.forces))

\* the bond forces a contacts_type sequence stands for, field by field
MatchesType(f, data, n) ==
    /\ f.expr = data.contacts[1][n]
    /\ f.params = data.contacts[2][n]
    /\ f.bonds = [b \in 1..Len(data.contacts[3][n]) |->
                     bondOf(data.contacts[3][n][b], data.contacts[2][n])]

\* C10: a loadXml call that completes has added exactly one custom bond
\* force per contacts_type element of the file, in order, each with that
\* type's expression, parameter names and bonds.
C10_OneForcePerType ==
    [][(op' = "loadXml" /\ ~self.forceApplied /\ exc' = "none")
        => LET old == Len(self.system.forces)
               added == BondForces(SubSeq(self'.system.forces, old - 1,
                                          Len(self'.system.forces)))
           IN  /\ Len(added) = Len(self'.data.contacts[4])
               /\ \A n \in 1..Len(added) : MatchesType(added[n], self'.data, n)]_vars

(***************************************************************************)
(* Properties of setup_openmm, checked under SpecSetup.                    *)
(***************************************************************************)
\* C5: a setup_openmm call with a precision outside mixed, single, double or
\* a platform outside opencl, cuda, hip, cpu, reference (in any case) raises
\* ValueError and leaves self.platform and self.integrator as they were.
C5_SetupValidation ==
    [][(op' = "setup_openmm"
          /\ (\/ Lower(args'.precision) \notin {S_mixed, S_single, S_double}
              \/ Lower(args'.platform) \notin
                     {S_opencl, S_cuda, S_hip, S_cpu, S_reference}))
        => /\ exc' = "ValueError"
           /\ self'.platform = self.platform
           /\ self'.integrator = self.integrator
           /\ self'.attrs \cap {"platform", "integrator"}
                  = self.attrs \cap {"platform", "integrator"}]_vars

(***************************************************************************)
(* Properties of loadSystem, checked under SpecNames.                      *)
(***************************************************************************)
\* c is the letter e of an extension, in lower or upper case
SameLetter(c, e) ==
    c = e \/ \E k \in 1..26 : LowerChars[k] = e /\ UpperChars[k] = c

\* the name ends with the extension, whatever the case of its letters
HasExtension(name, ext) ==
    /\ Len(name) >= Len(ext)
    /\ \A k \in 1..Len(ext) : SameLetter(name[Len(name) - Len(ext) + k], ext[k])

Loaders == <<"loadGro", "loadTop", "loadXml">>

Extensions == <<ExtGro, ExtTop, ExtXml>>

ExtensionError == exc = "ValueError" /\ msg = "Wrong file extension"

\* C3: in a loadSystem call every loader is given its own file, in the order
\* gro, top, xml, and only a file whose name has the required extension in
\* any case; with k the first file with a wrong extension, no loader from k on
\* is called and the call raises: the wrong-extension ValueError for file k
\* unless an earlier loader raised first; and that ValueError is raised for
\* no other file.
C3_ExtensionChecked ==
    op = "loadSystem" =>
        LET names == self.inputNames
            ok(k) == HasExtension(names[k], Extensions[k])
            bad == {k \in 1..3 : ~ok(k)}
            n == Len(loaderCalls)
        IN  /\ n <= 3
            /\ \A k \in 1..n : loaderCalls[k] = <<Loaders[k], names[k]>> /\ ok(k)
            /\ bad # {} =>
                  /\ n < Min(bad)
                  /\ exc # "none"
                  /\ (n = Min(bad) - 1 /\ exc \notin {"EngineError", "AttributeError"})
                        => ExtensionError
            /\ ExtensionError => bad # {} /\ errArg = names[Min(bad)] /\ n = Min(bad) - 1

C3_Witness ==
    /\ op = "loadSystem"
    /\ ExtensionError
    /\ self.inputNames[1] = <<"A", ".", "G", "R", "O">>
    /\ errArg = self.inputNames[2]
    /\ Len(loaderCalls) = 1
    /\ "Gro" \in self.attrs /\ "Top" \notin self.attrs

(***************************************************************************)
(* Properties of _checkFile, checked under SpecFiles.                      *)
(***************************************************************************)
Backup(filename, i) == Append(filename, BackupSuffix[i])

Content(d, path) == (CHOOSE e \in d : e[1] = path)[2]

\* C9: after _checkFile(filename) no file exists at filename; if one existed
\* it is now at filename_i for the smallest i in 1..10 that did not exist,
\* and every other file is where and what it was.
C9_BackedUpNeverOverwritten ==
    [][op' = "_checkFile" =>
        LET f == args'.filename
            free == {i \in 1..MaxBackups : ~isfile(disk, Backup(f, i))}
        IN  /\ ~isfile(disk', f)
            /\ isfile(disk, f) =>
                  /\ free # {}
                  /\ disk' = (disk \ {<<f, Content(disk, f)>>})
                                 \cup {<<Backup(f, Min(free)), Content(disk, f)>>}
            /\ ~isfile(disk, f) => disk' = disk]_vars

(***************************************************************************)
(* Properties of the type index of _customSmogForce_nb, checked under      *)
(* Spec.                                                                   *)
(***************************************************************************)
\* the labels the nonbond_param entries use, as type1 or as type2
LabelsOf(nbparams) ==
    [n \in 1..Len(nbparams) |-> nbparams[n]["type1"]]
    \o [n \in 1..Len(nbparams) |-> nbparams[n]["type2"]]

\* the side of a square table given by its cells row by row
Side(cells) == CHOOSE n \in 0..Len(cells) : n * n = Len(cells)

SymmetricTable(cells) ==
    \A a, b \in 0..(Side(cells) - 1) :
        cells[a * Side(cells) + b + 1] = cells[b * Side(cells) + a + 1]

\* C11: the type index built for a custom nonbonded force is the
\* duplicate-free set of all labels its nonbond_param entries use, as type1
\* or as type2; every entry and every particle resolves to an index in it
\* (no IndexError), and every parameter table of a force is symmetric.
C11_TypeIndexComplete ==
    /\ ({"atom_types", "nonbond"} \subseteq self.attrs /\ op = "loadXml")
           => /\ \E k \in 1..Len(self.nonbond) :
                     self.atom_types = npUnique(LabelsOf(self.nonbond[k][2][3]))
              /\ exc # "IndexError"
    /\ "system" \in self.attrs
           => \A n \in 1..Len(self.system.forces) :
                  \A t \in 1..Len(self.system.forces[n].tables) :
                      SymmetricTable(self.system.forces[n].tables[t][2])

(***************************************************************************)
(* The configuration steps in any order: setup_openmm, saveFolder,         *)
(* loadSystem, createSimulation, createReporters and run.                  *)
(***************************************************************************)
MaxSimReporters == 2

Folders == {".", "out"}

\* files loadSystem completes with (given pbc), and a file without constants
StepXmlFiles == {Xml(TRUE, TRUE, <<CT1>>, <<NB1>>), Xml(TRUE, FALSE, <<CT1>>, <<>>)}

\* the reporters attached to the simulation so far
CanReport ==
    "simulation" \in self.attrs => Len(self.simulation.reporters) < MaxSimReporters

SaveFolder ==
    \E folder \in Folders :
        Return(saveFolder(Machine, folder), "saveFolder", [folder |-> folder])

LoadFiles ==
    /\ CanLoadTop
    /\ CanAddForces
    /\ \E g \in GroFiles, x \in StepXmlFiles :
           Return(loadSystem(Machine, g, TopCA, x), "loadSystem", XmlArg(x))

CreateSimulation ==
    Return(createSimulation(Machine), "createSimulation", <<>>)

\* no reporter, the trajectory, the energy components
ReporterFlags == {<<FALSE, FALSE, FALSE>>, <<TRUE, FALSE, FALSE>>, <<FALSE, FALSE, TRUE>>}

StepReporters ==
    /\ CanReport
    /\ CanWrite
    /\ \E flags \in ReporterFlags :
           Return(createReporters(Machine, flags[1], flags[2], flags[3]),
                  "createReporters", flags)

StepRun == CanReport /\ Run

NextSteps ==
    \/ Setup
    \/ SaveFolder
    \/ LoadFiles
    \/ CreateSimulation
    \/ StepReporters
    \/ StepRun

SpecSteps == Init /\ [][NextSteps]_vars

(***************************************************************************)
(* Properties of the order of the steps, checked under SpecSteps.          *)
(***************************************************************************)
\* a loadSystem call completed: its forces are registered in forcesDict
Registered == self.forceApplied /\ "forcesDict" \in self.attrs

\* every force registered before the step is registered after it
StaysRegistered ==
    /\ "forcesDict" \in self'.attrs
    /\ \A n \in 1..Len(self.forcesDict) :
           /\ DictHas(self'.forcesDict, self.forcesDict[n][1])
           /\ DictGet(self'.forcesDict, self.forcesDict[n][1]) = self.forcesDict[n][2]

LaterSteps == {"setup_openmm", "saveFolder", "createSimulation", "createReporters", "run"}

\* C12: the forces a successful loadSystem registered in forcesDict stay
\* registered through every later setup_openmm, saveFolder,
\* createSimulation, createReporters and run call, and a loadSystem,
\* createReporters or run call issued before the step it depends on
\* (setup_openmm, createSimulation, createReporters) raises.
C12_StepsInOrder ==
    [][/\ (Registered /\ op' \in LaterSteps) => StaysRegistered
       /\ (op' = "loadSystem" /\ "forcesDict" \notin self.attrs) => exc' # "none"
       /\ (op' = "createReporters" /\ "simulation" \notin self.attrs) => exc' # "none"
       /\ (op' = "run" /\ ~({"simulation", "outputNames"} \subseteq self.attrs))
              => exc' # "none"]_vars

(***************************************************************************)
(* Properties of repeated loadXml calls, checked under Spec.               *)
(***************************************************************************)
\* C13: over any sequence of loadXml calls, calls that raised part-way
\* included, the system holds at most one contact force per contacts type:
\* no two custom bond forces of the system were built for the same type
\* name, so a retry after a failed loadXml leaves no duplicate.
C13_NoDuplicateContactForces ==
    "system" \in self.attrs
        => \A a, b \in 1..Len(self.system.forces) :
               (/\ self.system.forces[a].kind = "CustomBondForce"
                /\ self.system.forces[b].kind = "CustomBondForce"
                /\ self.system.forces[a].label = self.system.forces[b].label)
                   => a = b
====
